---- MODULE Spec2Model ----
(***************************************************************************)
(* GPUResourceState<StateType, InvalidState>                               *)
(* (Source/Engine/Graphics/GPUResourceState.h): tracking of per-resource   *)
(* or per-subresource state of a GPU resource.                             *)
(*                                                                         *)
(* The three data members are the variables _resourceState,                *)
(* _allSubresourcesSame and _subresourceState.  Every member function is   *)
(* an operator from a tracker record to a tracker record, and an action    *)
(* that applies it to the members.  A failing ASSERT aborts the process:   *)
(* it sets failed, after which no member function runs any more.           *)
(* BUILD_DEBUG is the preprocessor switch of the build; it is chosen once. *)
(* prev, last and init are history variables: what the tracker held and    *)
(* answered before the last call, the last call with its arguments, and    *)
(* the arguments of the Initialize that the tracker currently lives under. *)
(* sinceCopy tells what has happened since the last promotion copied       *)
(* _resourceState into the array: nothing yet ("copied"), or the call that *)
(* brought the tracker back to Uniform mode; "no copy" before the first.   *)
(* fresh and phase belong to SpecReinit and SpecBuilds, which run a second *)
(* tracker next to the first.                                              *)
(***************************************************************************)
EXTENDS Integers, Sequences, FiniteSets, TLC

VARIABLES _resourceState, _allSubresourcesSame, _subresourceState,
          failed, BUILD_DEBUG, prev, last, init, sinceCopy, fresh, phase

vars == <<_resourceState, _allSubresourcesSame, _subresourceState,
          failed, BUILD_DEBUG, prev, last, init, sinceCopy, fresh, phase>>

\* ---------------------------------------------------------------- bounds
\* Largest subresourceCount passed to Initialize.
MaxCount == 3
\* StateType values are 0..MaxState (an enum compared by equality only; the
\* values stay far below the 31 bits of the _resourceState bit-field).
MaxState == 2

\* Largest subresourceCount of the Initialize calls that SpecReinit makes on
\* both trackers.
MaxReinitCount == 2

\* The InvalidState template argument.
InvalidState == 0

States == 0..MaxState
\* subresourceCount arguments: 0 violates the Initialize precondition.
Counts == 0..MaxCount
ReinitCounts == 0..MaxReinitCount
\* subresourceIndex arguments: -1 is the "all subresources" sentinel, -2 a
\* negative index that is no sentinel, MaxCount is past the end of every array.
Indices == (0 - 2)..MaxCount

\* ------------------------------------------------------- the tracker record
This ==
    [resourceState |-> _resourceState,
     allSubresourcesSame |-> _allSubresourcesSame,
     subresourceState |-> _subresourceState,
     failed |-> failed]

\* The object right after the constructor.
Constructed ==
    [resourceState |-> InvalidState,
     allSubresourcesSame |-> TRUE,
     subresourceState |-> <<>>,
     failed |-> FALSE]

\* The loops that store one value into every entry of the array.
FillAll(a, v) == [i \in 1..Len(a) |-> v]

\* What Resize(count, false) can make of an empty array: count entries that
\* are not constructed, so each holds whatever the memory held.
Resized(count) == [1..count -> States]

\* Initialize with the usePerSubresourceTracking test of the allocation dropped.
InitializeOp_AllocatesAlways(t, subresourceCount, initialState, usePerSubresourceTracking, dbg) ==
    IF ~(Len(t.subresourceState) = 0 /\ subresourceCount > 0)
    THEN {[t EXCEPT !.failed = TRUE]}
    ELSE LET resized == IF subresourceCount > 1
                        THEN Resized(subresourceCount)
                        ELSE {t.subresourceState}
         IN  {[t EXCEPT !.allSubresourcesSame = TRUE,
                        !.resourceState = initialState,
                        !.subresourceState =
                             IF dbg THEN FillAll(a, InvalidState) ELSE a] :
                 a \in resized}

\* Initialize with the allocation test subresourceCount > 1 written as > 0.
InitializeOp_AllocatesSingle(t, subresourceCount, initialState, usePerSubresourceTracking, dbg) ==
    IF ~(Len(t.subresourceState) = 0 /\ subresourceCount > 0)
    THEN {[t EXCEPT !.failed = TRUE]}
    ELSE LET resized == IF usePerSubresourceTracking /\ subresourceCount > 0
                        THEN Resized(subresourceCount)
                        ELSE {t.subresourceState}
         IN  {[t EXCEPT !.allSubresourcesSame = TRUE,
                        !.resourceState = initialState,
                        !.subresourceState =
                             IF dbg THEN FillAll(a, InvalidState) ELSE a] :
                 a \in resized}

\* Initialize without the store to _allSubresourcesSame.
InitializeOp_KeepsMode(t, subresourceCount, initialState, usePerSubresourceTracking, dbg) ==
    IF ~(Len(t.subresourceState) = 0 /\ subresourceCount > 0)
    THEN {[t EXCEPT !.failed = TRUE]}
    ELSE LET resized == IF usePerSubresourceTracking /\ subresourceCount > 1
                        THEN Resized(subresourceCount)
                        ELSE {t.subresourceState}
         IN  {[t EXCEPT !.resourceState = initialState,
                        !.subresourceState =
                             IF dbg THEN FillAll(a, InvalidState) ELSE a] :
                 a \in resized}

\* Initialize(subresourceCount, initialState, usePerSubresourceTracking).
\* The set of trackers the call can leave: one for each content of the newly
\* allocated entries (one in all when nothing is allocated, or the ASSERT fails).
InitializeOp(t, subresourceCount, initialState, usePerSubresourceTracking, dbg) ==
    IF ~(Len(t.subresourceState) = 0 /\ subresourceCount > 0)
    THEN {[t EXCEPT !.failed = TRUE]}
    ELSE LET resized == IF usePerSubresourceTracking /\ subresourceCount > 1
                        THEN Resized(subresourceCount)
                        ELSE {t.subresourceState}
         IN  {[t EXCEPT !.allSubresourcesSame = TRUE,
                        !.resourceState = initialState,
                        !.subresourceState =
                             IF dbg THEN FillAll(a, InvalidState) ELSE a] :
                 a \in resized}

\* IsInitializated that looks at _resourceState alone.
IsInitializated_StateOnly(t) ==
    t.resourceState # InvalidState

IsInitializated(t) ==
    t.resourceState # InvalidState \/ Len(t.subresourceState) > 0

\* Release that asserts the tracker is initialized.
ReleaseOp_AssertsInitialized(t) ==
    IF ~IsInitializated(t)
    THEN [t EXCEPT !.failed = TRUE]
    ELSE [t EXCEPT !.resourceState = InvalidState,
                   !.subresourceState = <<>>]

ReleaseOp(t) ==
    [t EXCEPT !.resourceState = InvalidState,
              !.subresourceState = <<>>]

AreAllSubresourcesSame(t) == t.allSubresourcesSame

GetSubresourcesCount(t) == Len(t.subresourceState)

\* The loop of CheckResourceState from entry i (1-based) on: returns false at
\* the first entry that differs, true when it runs off the end.
RECURSIVE CheckLoop(_, _, _)
CheckLoop(a, state, i) ==
    IF i > Len(a) THEN TRUE
    ELSE IF a[i] # state THEN FALSE
    ELSE CheckLoop(a, state, i + 1)

\* CheckResourceState with the loop started one entry too late.
CheckResourceState_SkipsFirst(t, state) ==
    IF t.allSubresourcesSame
    THEN state = t.resourceState
    ELSE CheckLoop(t.subresourceState, state, 2)

CheckResourceState(t, state) ==
    IF t.allSubresourcesSame
    THEN state = t.resourceState
    ELSE CheckLoop(t.subresourceState, state, 1)

\* The ASSERT of GetSubresourceState.  The parameter is a uint32: a negative
\* argument arrives as a value of at least 2^31, which is past every Count().
GetSubresourceStateAsserts(t, subresourceIndex) ==
    /\ ~t.allSubresourcesSame
    /\ ~(subresourceIndex >= 0 /\ subresourceIndex < Len(t.subresourceState))

\* What a call that fails its ASSERT returns: nothing (no StateType value).
NoResult == 0 - 1

GetSubresourceState(t, subresourceIndex) ==
    IF t.allSubresourcesSame THEN t.resourceState
    ELSE IF GetSubresourceStateAsserts(t, subresourceIndex) THEN NoResult
    ELSE t.subresourceState[subresourceIndex + 1]

GetSubresourceStateOp(t, subresourceIndex) ==
    IF GetSubresourceStateAsserts(t, subresourceIndex)
    THEN [t EXCEPT !.failed = TRUE]
    ELSE t

\* SetResourceState without the store to _allSubresourcesSame.
SetResourceStateOp_KeepsMode(t, state, dbg) ==
    [t EXCEPT !.resourceState = state,
              !.subresourceState = IF dbg THEN FillAll(@, InvalidState) ELSE @]

\* SetResourceState that also frees the per-subresource array.
SetResourceStateOp_FreesArray(t, state, dbg) ==
    [t EXCEPT !.allSubresourcesSame = TRUE,
              !.resourceState = state,
              !.subresourceState = <<>>]

\* SetResourceState that flips _allSubresourcesSame instead of setting it.
SetResourceStateOp_TogglesMode(t, state, dbg) ==
    [t EXCEPT !.allSubresourcesSame = ~@,
              !.resourceState = state,
              !.subresourceState = IF dbg THEN FillAll(@, InvalidState) ELSE @]

\* SetResourceState without the BUILD_DEBUG loop over the array.
SetResourceStateOp_NoPoison(t, state, dbg) ==
    [t EXCEPT !.allSubresourcesSame = TRUE,
              !.resourceState = state]

SetResourceStateOp(t, state, dbg) ==
    [t EXCEPT !.allSubresourcesSame = TRUE,
              !.resourceState = state,
              !.subresourceState = IF dbg THEN FillAll(@, InvalidState) ELSE @]

\* The promotion without the loop that copies _resourceState into the array.
Promote_NoCopy(t, dbg) ==
    IF t.allSubresourcesSame
    THEN [t EXCEPT !.allSubresourcesSame = FALSE,
                   !.resourceState = IF dbg THEN InvalidState ELSE @]
    ELSE t

\* The promotion without the test of _allSubresourcesSame: every write copies.
Promote_Unconditional(t, dbg) ==
    [t EXCEPT !.subresourceState = FillAll(@, t.resourceState),
              !.allSubresourcesSame = FALSE,
              !.resourceState = IF dbg THEN InvalidState ELSE @]

\* The promotion with the debug poisoning of _resourceState done before the
\* copy loop instead of after it.
Promote_PoisonsFirst(t, dbg) ==
    IF t.allSubresourcesSame
    THEN [t EXCEPT !.subresourceState =
                       FillAll(@, IF dbg THEN InvalidState ELSE t.resourceState),
                   !.allSubresourcesSame = FALSE,
                   !.resourceState = IF dbg THEN InvalidState ELSE @]
    ELSE t

\* The promotion inside SetSubresourceState: the per-resource state is copied
\* into every entry and the array becomes the valid representation.
Promote(t, dbg) ==
    IF t.allSubresourcesSame
    THEN [t EXCEPT !.subresourceState = FillAll(@, t.resourceState),
                   !.allSubresourcesSame = FALSE,
                   !.resourceState = IF dbg THEN InvalidState ELSE @]
    ELSE t

\* SetSubresourceState(subresourceIndex, state).  Its ASSERT bounds the index
\* from above only; the final store goes through Array::operator[], whose own
\* range check stops a negative index after the promotion has been done.
SetSubresourceStateOp(t, subresourceIndex, state, dbg) ==
    IF subresourceIndex = 0 - 1 \/ Len(t.subresourceState) <= 1
    THEN SetResourceStateOp(t, state, dbg)
    ELSE IF ~(subresourceIndex < Len(t.subresourceState))
    THEN [t EXCEPT !.failed = TRUE]
    ELSE LET p == Promote(t, dbg)
         IN  IF subresourceIndex < 0
             THEN [p EXCEPT !.failed = TRUE]
             ELSE [p EXCEPT !.subresourceState[subresourceIndex + 1] = state]

\* ------------------------------------------------------------ the machine
NoInit == [subresourceCount |-> 0, usePerSubresourceTracking |-> FALSE]

Call(op, n, s, track, idx) ==
    [op |-> op, subresourceCount |-> n, state |-> s,
     usePerSubresourceTracking |-> track, subresourceIndex |-> idx]

\* What tracker record t holds in its two scalar members and answers to the
\* queries without arguments.
Before(t) ==
    [resourceState |-> t.resourceState,
     same |-> AreAllSubresourcesSame(t),
     count |-> GetSubresourcesCount(t),
     initialized |-> IsInitializated(t)]

\* The members take the values of tracker record t.
Becomes(t) ==
    /\ _resourceState' = t.resourceState
    /\ _allSubresourcesSame' = t.allSubresourcesSame
    /\ _subresourceState' = t.subresourceState
    /\ failed' = t.failed
    /\ UNCHANGED BUILD_DEBUG

\* The history moves on by one call.
Called(call) ==
    /\ prev' = Before(This)
    /\ last' = call
    /\ sinceCopy' =
          IF _allSubresourcesSame /\ ~_allSubresourcesSame' THEN "copied"
          ELSE IF ~_allSubresourcesSame /\ _allSubresourcesSame' /\ sinceCopy = "copied"
          THEN (IF call.op = "SetSubresourceState" THEN "SetResourceState" ELSE call.op)
          ELSE sinceCopy

Init ==
    /\ _resourceState = Constructed.resourceState
    /\ _allSubresourcesSame = Constructed.allSubresourcesSame
    /\ _subresourceState = Constructed.subresourceState
    /\ failed = FALSE
    /\ BUILD_DEBUG \in BOOLEAN
    /\ prev = Before(Constructed)
    /\ last = Call("GPUResourceState", 0, InvalidState, FALSE, 0 - 1)
    /\ init = NoInit
    /\ sinceCopy = "no copy"
    /\ fresh = Constructed
    /\ phase = "history"

Initialize(subresourceCount, initialState, usePerSubresourceTracking) ==
    /\ ~failed
    /\ phase = "history"
    /\ \E t \in InitializeOp(This, subresourceCount, initialState,
                             usePerSubresourceTracking, BUILD_DEBUG) :
             /\ Becomes(t)
             /\ init' = IF t.failed THEN init
                        ELSE [subresourceCount |-> subresourceCount,
                              usePerSubresourceTracking |-> usePerSubresourceTracking]
    /\ Called(Call("Initialize", subresourceCount, initialState,
                   usePerSubresourceTracking, 0 - 1))
    /\ UNCHANGED <<fresh, phase>>

Release ==
    /\ ~failed
    /\ phase = "history"
    /\ Becomes(ReleaseOp(This))
    /\ Called(Call("Release", 0, InvalidState, FALSE, 0 - 1))
    /\ init' = NoInit
    /\ UNCHANGED <<fresh, phase>>

SetResourceState(state) ==
    /\ ~failed
    /\ phase = "history"
    /\ Becomes(SetResourceStateOp(This, state, BUILD_DEBUG))
    /\ Called(Call("SetResourceState", 0, state, FALSE, 0 - 1))
    /\ UNCHANGED <<init, fresh, phase>>

SetSubresourceState(subresourceIndex, state) ==
    /\ ~failed
    /\ phase = "history"
    /\ Becomes(SetSubresourceStateOp(This, subresourceIndex, state, BUILD_DEBUG))
    /\ Called(Call("SetSubresourceState", 0, state, FALSE, subresourceIndex))
    /\ UNCHANGED <<init, fresh, phase>>

GetSubresourceStateCall(subresourceIndex) ==
    /\ ~failed
    /\ phase = "history"
    /\ Becomes(GetSubresourceStateOp(This, subresourceIndex))
    /\ Called(Call("GetSubresourceState", 0, InvalidState, FALSE, subresourceIndex))
    /\ UNCHANGED <<init, fresh, phase>>

Next ==
    \/ \E n \in Counts, s \in States, b \in BOOLEAN : Initialize(n, s, b)
    \/ Release
    \/ \E s \in States : SetResourceState(s)
    \/ \E i \in Indices, s \in States : SetSubresourceState(i, s)
    \/ \E i \in Indices : GetSubresourceStateCall(i)

Spec == Init /\ [][Next]_vars

\* ------------------------------------------------------- valid states only
\* The same tracker driven by a caller that never passes InvalidState as a
\* state argument.
ValidStates == States \ {InvalidState}

NextValid ==
    \/ \E n \in Counts, s \in ValidStates, b \in BOOLEAN : Initialize(n, s, b)
    \/ Release
    \/ \E s \in ValidStates : SetResourceState(s)
    \/ \E i \in Indices, s \in ValidStates : SetSubresourceState(i, s)
    \/ \E i \in Indices : GetSubresourceStateCall(i)

SpecValid == Init /\ [][NextValid]_vars

\* ------------------------------------------- release and re-initialization
\* A tracker that has been used and released is initialized again, and a tracker
\* that comes straight from the constructor is initialized with the same
\* arguments; Resize hands each its own memory.  phase remembers the mode the
\* released tracker was left in; the history of single calls is no longer kept.
Reinitialize(subresourceCount, initialState, usePerSubresourceTracking) ==
    /\ ~failed
    /\ phase = "history"
    /\ last.op = "Release"
    /\ \E t \in InitializeOp(This, subresourceCount, initialState,
                             usePerSubresourceTracking, BUILD_DEBUG),
          f \in InitializeOp(Constructed, subresourceCount, initialState,
                             usePerSubresourceTracking, BUILD_DEBUG) :
         /\ Becomes(t)
         /\ fresh' = f
    /\ phase' = IF _allSubresourcesSame THEN "released in Uniform mode"
                ELSE "released in PerSubresource mode"
    /\ prev' = Before(Constructed)
    /\ last' = Call("Initialize", 0, InvalidState, FALSE, 0 - 1)
    /\ init' = NoInit
    /\ sinceCopy' = "no copy"

\* From then on both trackers get the same calls.
Both == ~failed /\ ~fresh.failed /\ phase # "history"

BothInitialize(subresourceCount, initialState, usePerSubresourceTracking) ==
    /\ Both
    /\ \E t \in InitializeOp(This, subresourceCount, initialState,
                             usePerSubresourceTracking, BUILD_DEBUG),
          f \in InitializeOp(fresh, subresourceCount, initialState,
                             usePerSubresourceTracking, BUILD_DEBUG) :
         /\ Becomes(t)
         /\ fresh' = f
    /\ UNCHANGED <<prev, last, init, sinceCopy, phase>>

BothRelease ==
    /\ Both
    /\ Becomes(ReleaseOp(This))
    /\ fresh' = ReleaseOp(fresh)
    /\ UNCHANGED <<prev, last, init, sinceCopy, phase>>

BothSetResourceState(state) ==
    /\ Both
    /\ Becomes(SetResourceStateOp(This, state, BUILD_DEBUG))
    /\ fresh' = SetResourceStateOp(fresh, state, BUILD_DEBUG)
    /\ UNCHANGED <<prev, last, init, sinceCopy, phase>>

BothSetSubresourceState(subresourceIndex, state) ==
    /\ Both
    /\ Becomes(SetSubresourceStateOp(This, subresourceIndex, state, BUILD_DEBUG))
    /\ fresh' = SetSubresourceStateOp(fresh, subresourceIndex, state, BUILD_DEBUG)
    /\ UNCHANGED <<prev, last, init, sinceCopy, phase>>

BothGetSubresourceState(subresourceIndex) ==
    /\ Both
    /\ Becomes(GetSubresourceStateOp(This, subresourceIndex))
    /\ fresh' = GetSubresourceStateOp(fresh, subresourceIndex)
    /\ UNCHANGED <<prev, last, init, sinceCopy, phase>>

NextReinit ==
    \/ \E n \in Counts, s \in States, b \in BOOLEAN : Initialize(n, s, b)
    \/ Release
    \/ \E s \in States : SetResourceState(s)
    \/ \E i \in Indices, s \in States : SetSubresourceState(i, s)
    \/ \E i \in Indices : GetSubresourceStateCall(i)
    \/ \E n \in ReinitCounts, s \in States, b \in BOOLEAN : Reinitialize(n, s, b)
    \/ \E n \in ReinitCounts, s \in States, b \in BOOLEAN : BothInitialize(n, s, b)
    \/ BothRelease
    \/ \E s \in States : BothSetResourceState(s)
    \/ \E i \in Indices, s \in States : BothSetSubresourceState(i, s)
    \/ \E i \in Indices : BothGetSubresourceState(i)

SpecReinit == Init /\ [][NextReinit]_vars

\* ------------------------------------------------- the two builds side by side
\* The members are an object of a build with BUILD_DEBUG, fresh is an object of
\* a build without it; both are constructed and then get the same calls.
InitBuilds ==
    /\ _resourceState = Constructed.resourceState
    /\ _allSubresourcesSame = Constructed.allSubresourcesSame
    /\ _subresourceState = Constructed.subresourceState
    /\ failed = FALSE
    /\ BUILD_DEBUG = TRUE
    /\ prev = Before(Constructed)
    /\ last = Call("GPUResourceState", 0, InvalidState, FALSE, 0 - 1)
    /\ init = NoInit
    /\ sinceCopy = "no copy"
    /\ fresh = Constructed
    /\ phase = "builds"

Builds == ~failed /\ ~fresh.failed /\ phase = "builds"

BuildsInitialize(subresourceCount, initialState, usePerSubresourceTracking) ==
    /\ Builds
    /\ \E t \in InitializeOp(This, subresourceCount, initialState,
                             usePerSubresourceTracking, TRUE),
          f \in InitializeOp(fresh, subresourceCount, initialState,
                             usePerSubresourceTracking, FALSE) :
         /\ Becomes(t)
         /\ fresh' = f
    /\ Called(Call("Initialize", subresourceCount, initialState,
                   usePerSubresourceTracking, 0 - 1))
    /\ UNCHANGED <<init, phase>>

BuildsRelease ==
    /\ Builds
    /\ Becomes(ReleaseOp(This))
    /\ fresh' = ReleaseOp(fresh)
    /\ Called(Call("Release", 0, InvalidState, FALSE, 0 - 1))
    /\ UNCHANGED <<init, phase>>

BuildsSetResourceState(state) ==
    /\ Builds
    /\ Becomes(SetResourceStateOp(This, state, TRUE))
    /\ fresh' = SetResourceStateOp(fresh, state, FALSE)
    /\ Called(Call("SetResourceState", 0, state, FALSE, 0 - 1))
    /\ UNCHANGED <<init, phase>>

BuildsSetSubresourceState(subresourceIndex, state) ==
    /\ Builds
    /\ Becomes(SetSubresourceStateOp(This, subresourceIndex, state, TRUE))
    /\ fresh' = SetSubresourceStateOp(fresh, subresourceIndex, state, FALSE)
    /\ Called(Call("SetSubresourceState", 0, state, FALSE, subresourceIndex))
    /\ UNCHANGED <<init, phase>>

BuildsGetSubresourceState(subresourceIndex) ==
    /\ Builds
    /\ Becomes(GetSubresourceStateOp(This, subresourceIndex))
    /\ fresh' = GetSubresourceStateOp(fresh, subresourceIndex)
    /\ Called(Call("GetSubresourceState", 0, InvalidState, FALSE, subresourceIndex))
    /\ UNCHANGED <<init, phase>>

NextBuilds ==
    \/ \E n \in Counts, s \in States, b \in BOOLEAN : BuildsInitialize(n, s, b)
    \/ BuildsRelease
    \/ \E s \in States : BuildsSetResourceState(s)
    \/ \E i \in Indices, s \in States : BuildsSetSubresourceState(i, s)
    \/ \E i \in Indices : BuildsGetSubresourceState(i)

SpecBuilds == InitBuilds /\ [][NextBuilds]_vars

\* Every answer a caller can get from tracker record t.
Answers(t) ==
    [same |-> AreAllSubresourcesSame(t),
     count |-> GetSubresourcesCount(t),
     initialized |-> IsInitializated(t),
     check |-> [s \in States |-> CheckResourceState(t, s)],
     get |-> [i \in Indices |-> GetSubresourceState(t, i)]]

\* ------------------------------------------------------------- the claims
\* Real indices of tracker record t: [0, GetSubresourcesCount()).
RealIndices(t) == 0..(GetSubresourcesCount(t) - 1)

\* The last call ran SetResourceState: directly, or through the delegation of
\* SetSubresourceState (the -1 sentinel, or an array of at most one entry).
PerformedSetResourceState ==
    \/ last.op = "SetResourceState"
    \/ /\ last.op = "SetSubresourceState"
       /\ (last.subresourceIndex = 0 - 1 \/ prev.count <= 1)

\* C1: after every Release, from whatever state it was called in, the tracker
\* is in the constructed state: _resourceState = InvalidState, the array is
\* empty, the mode is Uniform (AreAllSubresourcesSame() is true) and
\* IsInitializated() is false.
C1_ReleaseGivesConstructed ==
    last.op = "Release" =>
        /\ _resourceState = InvalidState
        /\ _subresourceState = <<>>
        /\ AreAllSubresourcesSame(This)
        /\ ~IsInitializated(This)
        /\ This = Constructed

\* C2 (as stated): in every reachable state and for every state value s,
\* CheckResourceState(s) is true iff GetSubresourceState(i) = s for every i in
\* [0, GetSubresourcesCount()).
C2_CheckIffEveryCountedIndex ==
    \A s \in States :
        CheckResourceState(This, s)
            <=> \A i \in RealIndices(This) : GetSubresourceState(This, i) = s

\* C2 (amended): in every reachable state and for every state value s,
\* CheckResourceState(s) is true iff GetSubresourceState(i) = s for every i in
\* [0, GetSubresourcesCount()) when the mode is PerSubresource, and for every
\* index i whatever the count when the mode is Uniform.
C2_CheckIffEverySubresource ==
    \A s \in States :
        CheckResourceState(This, s)
            <=> \A i \in (IF AreAllSubresourcesSame(This) THEN Indices
                          ELSE RealIndices(This)) :
                    GetSubresourceState(This, i) = s

\* C2 witness: a PerSubresource tracker of several entries that were written
\* one by one and have converged to one state.
C2_Witness ==
    /\ ~failed
    /\ ~AreAllSubresourcesSame(This)
    /\ GetSubresourcesCount(This) > 1
    /\ ~prev.same
    /\ last.op = "SetSubresourceState"
    /\ CheckResourceState(This, last.state)

\* C3: a SetSubresourceState(k, s1) with a real index k on a Uniform tracker
\* with more than one allocated entry and uniform state s0 leaves the tracker
\* alive in PerSubresource mode with entry k = s1 and every other entry = s0,
\* the count unchanged, and CheckResourceState(s0) false whenever s1 # s0.
C3_Promotion ==
    ( /\ last.op = "SetSubresourceState"
      /\ prev.same
      /\ prev.count > 1
      /\ last.subresourceIndex \in 0..(prev.count - 1) )
    =>
    ( /\ ~failed
      /\ ~AreAllSubresourcesSame(This)
      /\ GetSubresourcesCount(This) = prev.count
      /\ GetSubresourceState(This, last.subresourceIndex) = last.state
      /\ \A i \in RealIndices(This) \ {last.subresourceIndex} :
            GetSubresourceState(This, i) = prev.resourceState
      /\ (last.state # prev.resourceState
            => ~CheckResourceState(This, prev.resourceState)) )

\* C3 witness: the promoting write, made right after Initialize(n, s0, true)
\* with n > 2, storing a state other than s0.
C3_Witness ==
    /\ last.op = "SetSubresourceState"
    /\ prev.same
    /\ ~AreAllSubresourcesSame(This)
    /\ init.usePerSubresourceTracking
    /\ prev.count = init.subresourceCount
    /\ GetSubresourcesCount(This) > 2
    /\ last.subresourceIndex \in 0..(prev.count - 1)
    /\ last.state # prev.resourceState
    /\ prev.resourceState # InvalidState

\* C4: SetResourceState(s2) on a tracker in PerSubresource mode leaves it in
\* Uniform mode with GetSubresourceState(i) = s2 for every index i and
\* CheckResourceState(s2) true, and the allocated count is unchanged.
C4_Demotion ==
    (last.op = "SetResourceState" /\ ~prev.same)
    =>
    ( /\ ~failed
      /\ AreAllSubresourcesSame(This)
      /\ \A i \in Indices : GetSubresourceState(This, i) = last.state
      /\ CheckResourceState(This, last.state)
      /\ GetSubresourcesCount(This) = prev.count )

\* C4 witness: SetResourceState(s2) on a PerSubresource tracker of several
\* entries that were not all s2.
C4_Witness ==
    /\ last.op = "SetResourceState"
    /\ ~prev.same
    /\ prev.count > 1
    /\ AreAllSubresourcesSame(This)

\* The tracker lives under Initialize(1, s0, true) or Initialize(n, s0, false).
Degenerate ==
    /\ init # NoInit
    /\ (init.subresourceCount = 1 \/ ~init.usePerSubresourceTracking)

\* C5: a tracker initialized with Initialize(1, s0, true) or
\* Initialize(n, s0, false) is in Uniform mode after every call, and each
\* SetSubresourceState(k, s1) on it, for any k, leaves exactly the tracker
\* that SetResourceState(s1) would have left.
C5_DegenerateCollapse ==
    Degenerate =>
        /\ AreAllSubresourcesSame(This)
        /\ last.op = "SetSubresourceState" =>
              /\ ~failed
              /\ prev.count = 0
              /\ This = SetResourceStateOp(
                            [resourceState |-> prev.resourceState,
                             allSubresourcesSame |-> prev.same,
                             subresourceState |-> <<>>,
                             failed |-> FALSE],
                            last.state, BUILD_DEBUG)
              /\ GetSubresourceState(This, 0) = last.state

\* C5 witness: SetSubresourceState with an index that is no sentinel, on a
\* tracker under Initialize(n, s0, false) with n > 1, changing the state.
C5_Witness ==
    /\ Degenerate
    /\ init.subresourceCount > 1
    /\ last.op = "SetSubresourceState"
    /\ last.subresourceIndex > 0
    /\ last.state # prev.resourceState
    /\ ~failed

\* C6: once a tracker in any reachable state has been released and initialized
\* again with (n, s0, tracking), and a freshly constructed tracker has been
\* initialized with the same arguments, the two give the same answers to
\* AreAllSubresourcesSame, GetSubresourcesCount, IsInitializated,
\* CheckResourceState(s) and GetSubresourceState(i), at once and after every
\* same sequence of further calls; and a call fails its ASSERT on the one iff
\* it does on the other.
C6_ReinitEquivalence ==
    phase # "history" =>
        /\ failed = fresh.failed
        /\ ~failed => Answers(This) = Answers(fresh)

\* C6 witness: the released tracker had been left in PerSubresource mode, and
\* after the re-initialization both trackers have been promoted again.
C6_Witness ==
    /\ phase = "released in PerSubresource mode"
    /\ ~failed
    /\ ~AreAllSubresourcesSame(This)
    /\ GetSubresourcesCount(This) > 1
    /\ \E s \in States : ~CheckResourceState(This, s) /\ s # InvalidState

\* C7: the mode goes from PerSubresource to Uniform (AreAllSubresourcesSame()
\* from false to true) only in a call that performs SetResourceState.
C7_OnlySetResourceStateDemotes ==
    (~prev.same /\ AreAllSubresourcesSame(This))
        => PerformedSetResourceState

\* C8: IsInitializated() goes from false to true only in an Initialize call.
C8_OnlyInitializeInitializes ==
    (~prev.initialized /\ IsInitializated(This))
        => last.op = "Initialize"

C10_CountFixed ==
    /\ last.op \in {"SetResourceState", "SetSubresourceState", "GetSubresourceState"}
          => GetSubresourcesCount(This) = prev.count
    /\ GetSubresourcesCount(This) # prev.count =>
          \/ /\ last.op = "Initialize"
             /\ prev.count = 0
             /\ GetSubresourcesCount(This) = last.subresourceCount
          \/ /\ last.op = "Release"
             /\ GetSubresourcesCount(This) = 0

\* C10 witness: a demotion of a tracker with several entries has kept the count.
C10_Witness ==
    /\ last.op = "SetResourceState"
    /\ ~prev.same
    /\ GetSubresourcesCount(This) > 1
    /\ GetSubresourcesCount(This) = prev.count

\* The index of the last call is an explicit index outside [0, count) of the
\* array the call found: not the -1 sentinel, and negative or past the end.
ExplicitOutOfRange ==
    /\ last.subresourceIndex # 0 - 1
    /\ last.subresourceIndex \notin 0..(prev.count - 1)

\* C11: a SetSubresourceState call on a tracker with more than one allocated
\* entry, and a GetSubresourceState call on a tracker whose array is the valid
\* representation, with an explicit index outside [0, count), fails its
\* precondition and leaves the tracker as it was.
C11_OutOfRangeRejected ==
    /\ ( /\ last.op = "SetSubresourceState"
         /\ prev.count > 1
         /\ ExplicitOutOfRange )
       => (failed /\ Before(This) = prev)
    /\ ( /\ last.op = "GetSubresourceState"
         /\ prev.count > 1
         /\ ~prev.same
         /\ ExplicitOutOfRange )
       => (failed /\ Before(This) = prev)

\* C12: an Initialize call on a tracker that lives under an earlier Initialize
\* (no Release in between), and an Initialize call with subresourceCount = 0,
\* fails its precondition.
C12_DoubleInitializeRejected ==
    [][ ( /\ last'.op = "Initialize"
          /\ (init # NoInit \/ last'.subresourceCount = 0) )
        => failed' ]_vars

\* C13: an object of the build that poisons the storage not in use and an
\* object of the build that does not, constructed and given the same calls,
\* give the same answers to IsInitializated, AreAllSubresourcesSame,
\* GetSubresourcesCount, CheckResourceState(s) and GetSubresourceState(i) after
\* every call, and a call fails its ASSERT on the one iff it does on the other.
C13_PoisoningUnobservable ==
    /\ failed = fresh.failed
    /\ ~failed => Answers(This) = Answers(fresh)

\* C13 witness: both objects are in PerSubresource mode after a write with a
\* real index; _resourceState is poisoned in the one and stale in the other.
C13_Witness ==
    /\ phase = "builds"
    /\ ~failed
    /\ last.op = "SetSubresourceState"
    /\ ~AreAllSubresourcesSame(This)
    /\ GetSubresourcesCount(This) > 1
    /\ _resourceState = InvalidState
    /\ fresh.resourceState # InvalidState

\* C14: after every SetResourceState(s), a second SetResourceState(s) would
\* leave the same tracker (members and every answer); and a SetResourceState(s)
\* on a Uniform tracker whose state is s already changes nothing.
C14_SetResourceStateIdempotent ==
    last.op = "SetResourceState" =>
        /\ ~failed
        /\ SetResourceStateOp(This, last.state, BUILD_DEBUG) = This
        /\ Answers(SetResourceStateOp(This, last.state, BUILD_DEBUG)) = Answers(This)
        /\ (prev.same /\ prev.resourceState = last.state) => Before(This) = prev

\* C14 witness: SetResourceState(s) was called on a Uniform tracker with an
\* allocated array whose state was the valid state s already.
C14_Witness ==
    /\ last.op = "SetResourceState"
    /\ prev.same
    /\ prev.resourceState = last.state
    /\ last.state # InvalidState
    /\ GetSubresourcesCount(This) > 1

\* C15: Release never fails a precondition, in whatever state it is called,
\* and after every Release a second Release would leave the same tracker.
C15_ReleaseIdempotent ==
    /\ ~failed => ~ReleaseOp(This).failed
    /\ last.op = "Release" =>
          /\ ~failed
          /\ ReleaseOp(This) = This

\* C15 witness: Release was called on a tracker that had been released before,
\* from PerSubresource mode.
C15_Witness ==
    /\ last.op = "Release"
    /\ ~failed
    /\ ~prev.initialized
    /\ prev.count = 0
    /\ ~prev.same

\* C17: in the BUILD_DEBUG build, in every reachable state, every entry of the
\* array is InvalidState when the mode is Uniform, and _resourceState is
\* InvalidState when the mode is PerSubresource.
C17_DormantStorageInvalid ==
    BUILD_DEBUG =>
        /\ _allSubresourcesSame =>
              \A i \in 1..Len(_subresourceState) : _subresourceState[i] = InvalidState
        /\ ~_allSubresourcesSame => _resourceState = InvalidState

\* C17 witness: the debug build has demoted a tracker of several entries that
\* held valid states.
C17_Witness ==
    /\ BUILD_DEBUG
    /\ last.op = "SetResourceState"
    /\ last.state # InvalidState
    /\ ~prev.same
    /\ prev.count > 1
    /\ _allSubresourcesSame
    /\ ~failed

\* C18: in every reachable state, PerSubresource mode implies an allocated
\* array of more than one entry, so that GetSubresourceState(0) passes its
\* ASSERT.
C18_PerSubresourceHasArray ==
    ~AreAllSubresourcesSame(This) =>
        /\ GetSubresourcesCount(This) > 1
        /\ ~GetSubresourceStateAsserts(This, 0)

\* C19: in every reachable state CheckResourceState is true of at most one
\* state value.
C19_CheckAtMostOneState ==
    \A a \in States, b \in States :
        (CheckResourceState(This, a) /\ CheckResourceState(This, b)) => a = b

\* The step is a SetSubresourceState call with a real index on a tracker in
\* PerSubresource mode with more than one entry.
RealIndexWriteInPerSubresourceMode ==
    /\ last'.op = "SetSubresourceState"
    /\ ~_allSubresourcesSame
    /\ Len(_subresourceState) > 1
    /\ last'.subresourceIndex \in 0..(Len(_subresourceState) - 1)

\* The step changes entry subresourceIndex of the array and nothing else.
WritesOneEntryOnly ==
    /\ ~failed'
    /\ ~_allSubresourcesSame'
    /\ _resourceState' = _resourceState
    /\ _subresourceState' =
          [_subresourceState EXCEPT ![last'.subresourceIndex + 1] = last'.state]

\* The step is a promotion: it starts in Uniform mode, copies _resourceState
\* into the array and ends in PerSubresource mode.
CopyStep == _allSubresourcesSame /\ ~_allSubresourcesSame'

\* C16 (as stated): in PerSubresource mode SetSubresourceState(k, s) with a
\* real index changes entry k only (other entries, mode and length stay); and
\* between any two copies of _resourceState into the array the tracker was
\* brought back to Uniform mode by a call that performed SetResourceState.
C16_OneCopyPerDemotion ==
    [][ /\ RealIndexWriteInPerSubresourceMode => WritesOneEntryOnly
        /\ CopyStep => sinceCopy \in {"no copy", "SetResourceState"} ]_vars

\* C16 (amended): in PerSubresource mode SetSubresourceState(k, s) with a real
\* index changes entry k only; and between any two copies the tracker was
\* brought back to Uniform mode by a call that performed SetResourceState or
\* by an Initialize (after a Release).
C16_OneCopyPerDemotionOrInitialize ==
    [][ /\ RealIndexWriteInPerSubresourceMode => WritesOneEntryOnly
        /\ CopyStep => sinceCopy \in {"no copy", "SetResourceState", "Initialize"} ]_vars

\* C16 witness: a write with a real index in PerSubresource mode, with no
\* demotion since the copy, has left entries that differ from each other.
C16_Witness ==
    /\ last.op = "SetSubresourceState"
    /\ ~prev.same
    /\ prev.count > 1
    /\ last.subresourceIndex \in 0..(prev.count - 1)
    /\ sinceCopy = "copied"
    /\ ~failed
    /\ ~\E s \in States : CheckResourceState(This, s)

\* The indices GetSubresourceState accepts: every index in Uniform mode, the
\* array's indices in PerSubresource mode.
InRange(t) ==
    {i \in Indices : ~GetSubresourceStateAsserts(t, i)}

\* C20: when Initialize, SetResourceState and SetSubresourceState only ever
\* get states other than InvalidState, GetSubresourceState(i) of an
\* initialized tracker differs from InvalidState for every in-range index i,
\* in debug and in release builds.
C20_NeverReturnsInvalid ==
    (~failed /\ IsInitializated(This)) =>
        \A i \in InRange(This) : GetSubresourceState(This, i) # InvalidState

\* C20 witness: GetSubresourceState has answered on an initialized tracker of
\* a debug build in PerSubresource mode, whose _resourceState is poisoned.
C20_Witness ==
    /\ last.op = "GetSubresourceState"
    /\ ~failed
    /\ BUILD_DEBUG
    /\ IsInitializated(This)
    /\ ~_allSubresourcesSame
    /\ _resourceState = InvalidState
    /\ InRange(This) # {}

====
